---- MODULE Spec2Model ----
(***************************************************************************)
(* Delivery-reliability core of the WhatsApp plugin:                       *)
(*   WhatsAppMessageStream / StreamManager   (src/src/streaming.ts)        *)
(*   injectMessage / handleStreamChunk       (src/src/message-handler.ts)  *)
(*   withRetry / classifyError               (src/src/retry.ts)            *)
(*   ReactionStateMachine                    (src/unnamed/part_015)        *)
(*                                                                         *)
(* JavaScript runs one synchronous segment at a time; every `await` is a   *)
(* point where other callbacks may run.  Each action below is one          *)
(* synchronous segment: from a call (or the resumption after an await) to  *)
(* the next await.                                                         *)
(***************************************************************************)
EXTENDS Integers, Sequences, FiniteSets, TLC

(* ------------------------------------------------------------------ *)
(* Bounds of the model                                                 *)
(* ------------------------------------------------------------------ *)

\* WHATSAPP_LIMIT (4096 in streaming.ts:15) scaled down to a size the
\* checker can exhaust; the code only compares lengths against it.
WHATSAPP_LIMIT == 4

\* append() calls accepted per stream
MaxAppends == 3

\* transport sends per run that may reject or resolve without a key
MaxFaults == 1

\* stream objects one StreamManager constructs
MaxStreams == 3

\* inbound messages (turns of injectMessage) per run
MaxTurns == 2

\* fragments the backend produces through onStream, over all turns
MaxChunks == 1

\* largest maxRetries a withRetry call is configured with
MaxRetriesBound == 3

\* transition requests on one ReactionStateMachine
MaxRequests == 4

\* largest attempt number calculateDelay is evaluated for
MaxAttempt == 6

\* longest text findSplitPoint is evaluated for
MaxTextLen == 5

\* Math.random() returns one of 0/RandomDen .. (RandomDen - 1)/RandomDen
RandomDen == 4

(* ------------------------------------------------------------------ *)
(* Text                                                                *)
(* ------------------------------------------------------------------ *)

\* \s of the regular expression in findSplitPoint and of String.trim
IsWs(c) == c \in {" ", "\n"}

SetMin(S) == CHOOSE x \in S : \A y \in S : x <= y

SetMax(S) == CHOOSE x \in S : \A y \in S : x >= y

\* String.prototype.trim
Trim(s) ==
    LET idx == {i \in 1..Len(s) : ~IsWs(s[i])}
    IN IF idx = {} THEN <<>> ELSE SubSeq(s, SetMin(idx), SetMax(idx))

\* number of non-whitespace characters of s
NonWsLen(s) == Cardinality({i \in 1..Len(s) : ~IsWs(s[i])})

RECURSIVE Join(_)
\* Array.prototype.join("") of a list of fragments
Join(frags) ==
    IF frags = <<>> THEN <<>> ELSE Head(frags) \o Join(Tail(frags))

\* fragments a caller may append: empty, whitespace only, plain, leading
\* whitespace, a sentence end followed by text that fills one message, and
\* a sentence long enough to overflow the limit
Fragments ==
    { <<>>, <<" ">>, <<"a">>, <<" ", "b">>, <<"c", ".", " ", "d">>,
      <<"c", ".", " ", "d", "e">> }

\* the characters of s that are not whitespace, in order
Strip(s) == SelectSeq(s, LAMBDA c : ~IsWs(c))

\* a findSplitPoint that never splits
findSplitPointWhole(text, maxLen) == Len(text)

\* a findSplitPoint that tries the space before the sentence end
findSplitPointSpaceFirst(text, maxLen) ==
    IF Len(text) <= maxLen THEN Len(text)
    ELSE
      LET sentence == {i \in 2..maxLen :
                          text[i-1] \in {".", "!", "?"} /\ IsWs(text[i])}
          lastPlus1(c) ==
              LET hits == {j \in 1..(maxLen + 1) : text[j] = c}
              IN IF hits = {} THEN 0 ELSE SetMax(hits)
          nl == lastPlus1("\n")
          sp == lastPlus1(" ")
      IN IF 2 * (sp - 1) > maxLen THEN sp
         ELSE IF 2 * (nl - 1) > maxLen THEN nl
         ELSE IF sentence # {} /\ 2 * SetMax(sentence) > maxLen
           THEN SetMax(sentence)
         ELSE maxLen

\* streaming.ts findSplitPoint: the returned value is a JavaScript index,
\* that is the number of characters before the split.
findSplitPoint(text, maxLen) ==
    IF Len(text) <= maxLen THEN Len(text)
    ELSE
      LET \* /.*[.!?]\s/s on text.slice(0, maxLen): greedy, so the match ends
          \* at the last terminator-plus-whitespace pair inside the slice
          sentence == {i \in 2..maxLen :
                          text[i-1] \in {".", "!", "?"} /\ IsWs(text[i])}
          \* lastIndexOf(c, maxLen) + 1: the search starts AT index maxLen
          lastPlus1(c) ==
              LET hits == {j \in 1..(maxLen + 1) : text[j] = c}
              IN IF hits = {} THEN 0 ELSE SetMax(hits)
          nl == lastPlus1("\n")
          sp == lastPlus1(" ")
      IN IF sentence # {} /\ 2 * SetMax(sentence) > maxLen
           THEN SetMax(sentence)
         ELSE IF 2 * (nl - 1) > maxLen THEN nl
         ELSE IF 2 * (sp - 1) > maxLen THEN sp
         ELSE maxLen

(* ------------------------------------------------------------------ *)
(* State                                                               *)
(* ------------------------------------------------------------------ *)

VARIABLES
    ms,        \* heap of WhatsAppMessageStream objects: id -> fields
    streams,   \* StreamManager.streams: jid -> stream id, 0 when absent
    turns,     \* inbound messages being handled (handleIncomingMessage)
    down,      \* the plugin's shutdown() has run
    retry,     \* one withRetry invocation
    rsm,       \* one ReactionStateMachine and its send function
    call       \* one call of a function without side effects

vars == <<ms, streams, turns, down, retry, rsm, call>>

StreamIds == 1..MaxStreams

JIDs == {"A", "B"}

TurnIds == 1..MaxTurns

\* one inbound message on its way through handleIncomingMessage and
\* injectMessage
\*   pc      "idle"        not yet received
\*           "queued"      past interrupt(jid), awaiting the steps before
\*                         injectMessage
\*           "activating"  past create(jid), awaiting transition("active")
\*           "inject"      awaiting ctx.inject; onStream chunks arrive
\*           "finalizing"  awaiting stream.finalize() inside
\*                         StreamManager.finalize
\*           "responding"  past StreamManager.finalize, awaiting
\*                         sendResponse / transition("done")
\*           "failing"     in the catch block, awaiting transition("error")
\*           "done"        handled
\*   stream  the stream StreamManager.finalize is awaiting
\*   waits   that finalize() call was the one that set finalized
\*   chunks  fragments the backend produced for it (history)
\*   again   the catch block of handleIncomingMessage has re-run injectMessage
\*   reaction  _state of the message's ReactionStateMachine, "null" for null
\*   injects   calls of ctx.inject made for it (history)
IdleTurn ==
    [pc |-> "idle", jid |-> "A", stream |-> 0, waits |-> FALSE,
     didStream |-> FALSE, chunks |-> 0, again |-> FALSE,
     reaction |-> "null", injects |-> 0]

IdleTurns == [t \in TurnIds |-> IdleTurn]

\* a call of processPending / finalize that is suspended at an await
\*   pc   "idle"    not running
\*        "sending" awaiting socket.sendMessage
\*        "ret"     an awaited call has returned; resumes on the next tick
\*        "done"    finalize() has resolved
\*   ctx  which await it is suspended at
\*        "pp"      processPending: await this.flush()
\*        "ovCur"   handleOverflow: await this.flush() of the closed part
\*        "ovRest"  handleOverflow: the trailing flush / return
\*        "fpp"     finalize: await this.processPending()
\*        "fin"     finalize: await this.flush()
IdleThread ==
    [pc |-> "idle", ctx |-> "none", text |-> <<>>, key |-> 0, overflow |-> <<>>]

Suspended(pc, ctx, text, key, overflow) ==
    [pc |-> pc, ctx |-> ctx, text |-> text, key |-> key, overflow |-> overflow]

\* fields of a WhatsAppMessageStream right after its constructor; alive is
\* FALSE for a heap slot no constructor has run for.
\*   tmr, fin    the timer's processPending call and the finalize call
\*   accepted    text append() has accepted (history)
\*   base        non-whitespace characters closed out by overflow (history)
\*   log         payloads handed to socket.sendMessage (history)
\*   nkeys       message handles the transport has returned
\*   faults      sends that rejected or resolved without a key
\*   shown       the text each message handle shows, by handle (history)
\*   resolved    some socket.sendMessage call has resolved (history)
\*   superseded  StreamManager.create cancelled it while it was live (history)
\*   shut        StreamManager.cancelAll found it in the registry (history)
\*   overflowed  handleOverflow has run (history)
\*   overflowedText  ... on content longer than the limit after trimming
\*   owner       the turn whose create() constructed it, 0 for none (history)
\*   failed      the sends that rejected: index in log and the await the
\*               flush was called from (history)
NewStream(jid) ==
    [ alive |-> TRUE, jid |-> jid, owner |-> 0,
      content |-> <<>>, messageKey |-> 0, flushTimer |-> TRUE,
      pendingContent |-> <<>>, processing |-> FALSE, finalized |-> FALSE,
      cancelled |-> FALSE, lastFlushLength |-> 0, completedKeys |-> <<>>,
      didStream |-> FALSE,
      tmr |-> IdleThread, fin |-> IdleThread,
      accepted |-> <<>>, nAppends |-> 0, base |-> 0, log |-> <<>>,
      nkeys |-> 0, faults |-> 0, shown |-> <<>>, resolved |-> FALSE,
      superseded |-> FALSE, shut |-> FALSE, overflowed |-> FALSE,
      overflowedText |-> FALSE, failed |-> {} ]

NoStream == [NewStream("A") EXCEPT !.alive = FALSE, !.flushTimer = FALSE]

(* ------------------------------------------------------------------ *)
(* WhatsAppMessageStream                                               *)
(* ------------------------------------------------------------------ *)

\* where a processPending call leaves its caller: the timer callback is
\* over, finalize resumes after `await this.processPending()`
AfterProcessPending(th) ==
    IF th = "tmr" THEN IdleThread ELSE Suspended("ret", "fpp", <<>>, 0, <<>>)

\* flush() without its check of the cancelled flag
flushIgnoringCancel(r, th, ctx, overflow) ==
    LET text == Trim(r.content)
    IN IF text = <<>> \/ Len(text) = r.lastFlushLength
       THEN [r EXCEPT ![th] = Suspended("ret", ctx, <<>>, 0, overflow)]
       ELSE [r EXCEPT
               ![th] = Suspended("sending", ctx, text, r.messageKey, overflow),
               !.log = Append(@, [key |-> r.messageKey, text |-> text,
                                  off |-> r.base, by |-> th])]

\* flush() without its comparison against lastFlushLength
flushIgnoringLength(r, th, ctx, overflow) ==
    LET text == Trim(r.content)
    IN IF text = <<>> \/ r.cancelled
       THEN [r EXCEPT ![th] = Suspended("ret", ctx, <<>>, 0, overflow)]
       ELSE [r EXCEPT
               ![th] = Suspended("sending", ctx, text, r.messageKey, overflow),
               !.log = Append(@, [key |-> r.messageKey, text |-> text,
                                  off |-> r.base, by |-> th])]

\* flush(), up to its await: either returns without sending or hands the
\* payload to socket.sendMessage
flush(r, th, ctx, overflow) ==
    LET text == Trim(r.content)
    IN IF text = <<>> \/ r.cancelled \/ Len(text) = r.lastFlushLength
       THEN [r EXCEPT ![th] = Suspended("ret", ctx, <<>>, 0, overflow)]
       ELSE [r EXCEPT
               ![th] = Suspended("sending", ctx, text, r.messageKey, overflow),
               !.log = Append(@, [key |-> r.messageKey, text |-> text,
                                  off |-> r.base, by |-> th])]

RECURSIVE handleOverflow(_, _)
RECURSIVE overflowRest(_, _, _, _)

\* a handleOverflow that keeps the handle of the message it closed
overflowRestKeepsKey(r, th, overflow, closed) ==
    LET r1 == [r EXCEPT
                 !.completedKeys =
                     IF r.messageKey # 0 THEN Append(@, r.messageKey) ELSE @,
                 !.content = overflow,
                 !.lastFlushLength = 0,
                 !.base = @ + closed]
    IN IF Len(overflow) > WHATSAPP_LIMIT THEN handleOverflow(r1, th)
       ELSE IF overflow # <<>> THEN flush(r1, th, "ovRest", <<>>)
       ELSE [r1 EXCEPT ![th] = Suspended("ret", "ovRest", <<>>, 0, <<>>)]

\* handleOverflow(), up to `await this.flush()` of the closed part
handleOverflow(r, th) ==
    LET splitPoint == findSplitPoint(r.content, WHATSAPP_LIMIT)
        current == Trim(SubSeq(r.content, 1, splitPoint))
        overflow == Trim(SubSeq(r.content, splitPoint + 1, Len(r.content)))
        r0 == [r EXCEPT !.overflowed = TRUE,
                        !.overflowedText = @ \/ Len(Trim(r.content)) > WHATSAPP_LIMIT]
    IN IF current # <<>>
       THEN flush([r0 EXCEPT !.content = current], th, "ovCur", overflow)
       ELSE overflowRest(r0, th, overflow, 0)

\* handleOverflow() after the closed part: save the key, start fresh
overflowRest(r, th, overflow, closed) ==
    LET r1 == [r EXCEPT
                 !.completedKeys =
                     IF r.messageKey # 0 THEN Append(@, r.messageKey) ELSE @,
                 !.messageKey = 0,
                 !.content = overflow,
                 !.lastFlushLength = 0,
                 !.base = @ + closed]
    IN IF Len(overflow) > WHATSAPP_LIMIT THEN handleOverflow(r1, th)
       ELSE IF overflow # <<>> THEN flush(r1, th, "ovRest", <<>>)
       ELSE [r1 EXCEPT ![th] = Suspended("ret", "ovRest", <<>>, 0, <<>>)]

\* the guard of processPending
ppSkips(r) == r.processing \/ r.cancelled \/ r.pendingContent = <<>>

\* processPending(), up to its first await (th is the caller)
processPending(r, th) ==
    IF ppSkips(r) THEN [r EXCEPT ![th] = AfterProcessPending(th)]
    ELSE
      LET batch == Join(r.pendingContent)
          r1 == [r EXCEPT !.pendingContent = <<>>]
      IN IF batch = <<>>
         THEN [r1 EXCEPT ![th] = AfterProcessPending(th)]
         ELSE
           LET r2 == [r1 EXCEPT !.processing = TRUE, !.content = @ \o batch]
           IN IF Len(r2.content) > WHATSAPP_LIMIT
              THEN handleOverflow(r2, th)
              ELSE flush(r2, th, "pp", <<>>)

\* the finally block of processPending
endProcessPending(r, th) ==
    [r EXCEPT !.processing = FALSE, ![th] = AfterProcessPending(th)]

\* finalize(): the final flush, or resolve
finalFlush(r) ==
    IF Len(r.content) > 0 /\ Len(r.content) # r.lastFlushLength /\ ~r.cancelled
    THEN flush(r, "fin", "fin", <<>>)
    ELSE [r EXCEPT !.fin = Suspended("done", "none", <<>>, 0, <<>>)]

\* finalize(), up to its first await
finalize(r) ==
    IF r.finalized THEN r
    ELSE
      LET r1 == [r EXCEPT !.finalized = TRUE, !.flushTimer = FALSE]
      IN IF r1.pendingContent # <<>> /\ ~r1.cancelled
         THEN processPending(r1, "fin")
         ELSE finalFlush(r1)

\* cleanup()
cleanup(r) == [r EXCEPT !.flushTimer = FALSE]

\* cancel()
cancel(r) ==
    IF r.finalized THEN r ELSE cleanup([r EXCEPT !.cancelled = TRUE])

\* append(text)
append(r, text) ==
    IF r.finalized \/ r.cancelled THEN r
    ELSE [r EXCEPT !.pendingContent = Append(@, text),
                   !.accepted = @ \o text,
                   !.nAppends = @ + 1]

\* the latest payload thread th handed to the transport, as index in log
LastSendOf(r, th) == SetMax({i \in 1..Len(r.log) : r.log[i].by = th})

\* a flush that does not keep the handle the transport returned
sendResolvedForgetsKey(r, th, outcome) ==
    LET t == r[th]
        back == Suspended("ret", t.ctx, <<>>, 0, t.overflow)
    IN IF outcome = "fail"
       THEN [r EXCEPT ![th] = back, !.faults = @ + 1,
                      !.failed = @ \cup {[at |-> LastSendOf(r, th),
                                          ctx |-> t.ctx]}]
       ELSE IF t.key = 0 /\ outcome = "ok"
       THEN [r EXCEPT ![th] = back,
                      !.nkeys = @ + 1,
                      !.didStream = TRUE,
                      !.resolved = TRUE,
                      !.shown = Append(@, t.text),
                      !.lastFlushLength = Len(t.text)]
       ELSE [r EXCEPT ![th] = back,
                      !.lastFlushLength = Len(t.text),
                      !.resolved = TRUE,
                      !.shown = IF t.key # 0 THEN [@ EXCEPT ![t.key] = t.text]
                                ELSE @,
                      !.faults = IF outcome = "nokey" THEN @ + 1 ELSE @]

\* a flush that moves the watermark also when the send rejects
sendResolvedAlwaysMarks(r, th, outcome) ==
    LET t == r[th]
        back == Suspended("ret", t.ctx, <<>>, 0, t.overflow)
    IN IF outcome = "fail"
       THEN [r EXCEPT ![th] = back, !.faults = @ + 1,
                      !.lastFlushLength = Len(t.text),
                      !.failed = @ \cup {[at |-> LastSendOf(r, th),
                                          ctx |-> t.ctx]}]
       ELSE IF t.key = 0 /\ outcome = "ok"
       THEN [r EXCEPT ![th] = back,
                      !.nkeys = @ + 1,
                      !.messageKey = r.nkeys + 1,
                      !.didStream = TRUE,
                      !.resolved = TRUE,
                      !.shown = Append(@, t.text),
                      !.lastFlushLength = Len(t.text)]
       ELSE [r EXCEPT ![th] = back,
                      !.lastFlushLength = Len(t.text),
                      !.resolved = TRUE,
                      !.shown = IF t.key # 0 THEN [@ EXCEPT ![t.key] = t.text]
                                ELSE @,
                      !.faults = IF outcome = "nokey" THEN @ + 1 ELSE @]

\* flush() after `await this.socket.sendMessage(...)`
\*   "ok"     resolved with a message carrying a key
\*   "nokey"  resolved with undefined (result?.key is falsy)
\*   "fail"   rejected: logged and swallowed
sendResolved(r, th, outcome) ==
    LET t == r[th]
        back == Suspended("ret", t.ctx, <<>>, 0, t.overflow)
    IN IF outcome = "fail"
       THEN [r EXCEPT ![th] = back, !.faults = @ + 1,
                      !.failed = @ \cup {[at |-> LastSendOf(r, th),
                                          ctx |-> t.ctx]}]
       ELSE IF t.key = 0 /\ outcome = "ok"
       THEN [r EXCEPT ![th] = back,
                      !.nkeys = @ + 1,
                      !.messageKey = r.nkeys + 1,
                      !.didStream = TRUE,
                      !.resolved = TRUE,
                      !.shown = Append(@, t.text),
                      !.lastFlushLength = Len(t.text)]
       ELSE [r EXCEPT ![th] = back,
                      !.lastFlushLength = Len(t.text),
                      !.resolved = TRUE,
                      !.shown = IF t.key # 0 THEN [@ EXCEPT ![t.key] = t.text]
                                ELSE @,
                      !.faults = IF outcome = "nokey" THEN @ + 1 ELSE @]

\* the code after an await whose callee has returned
resume(r, th) ==
    LET t == r[th]
    IN CASE t.ctx = "pp"     -> endProcessPending(r, th)
         [] t.ctx = "ovCur"  -> overflowRest(r, th, t.overflow, NonWsLen(r.content))
         [] t.ctx = "ovRest" -> endProcessPending(r, th)
         [] t.ctx = "fpp"    -> finalFlush(r)
         [] t.ctx = "fin"    -> [r EXCEPT !.fin = Suspended("done", "none", <<>>, 0, <<>>)]

Threads == {"tmr", "fin"}

RECURSIVE FaultsOf(_)
\* sends, over the streams in S, that rejected or resolved without a key
FaultsOf(S) ==
    IF S = {} THEN 0
    ELSE LET s == CHOOSE x \in S : TRUE
         IN ms[s].faults + FaultsOf(S \ {s})

\* sends of stream r that are awaiting the transport
InFlight(r) == {th \in Threads : r[th].pc = "sending"}

\* finalize() of stream r has resolved
FinalizeResolved(r) == r.fin.pc = "done"

\* turn t's `await stream.finalize()` has a resolved promise to resume on:
\* the call returned at once (already finalized) or finalize() has resolved
FinalizeAwaitOver(t) ==
    /\ turns[t].pc = "finalizing"
    /\ turns[t].waits => FinalizeResolved(ms[turns[t].stream])

\* The event loop runs every queued continuation (microtask) before the
\* next timer callback, transport completion or inbound event.
MicrotaskPending ==
    \/ \E s \in StreamIds, th \in Threads : ms[s][th].pc = "ret"
    \/ \E t \in TurnIds : FinalizeAwaitOver(t)

(* ---- actions on one stream object ---- *)

\* the setInterval callback: () => this.processPending()
Tick(s) ==
    /\ ~MicrotaskPending
    /\ ms[s].alive /\ ms[s].flushTimer
    /\ ~ppSkips(ms[s])
    /\ ms' = [ms EXCEPT ![s] = processPending(ms[s], "tmr")]
    /\ UNCHANGED <<streams, turns, down, retry, rsm, call>>

\* the transport settles a send
SendSettles(s) ==
    /\ ~MicrotaskPending
    /\ ms[s].alive
    /\ \E th \in Threads, outcome \in {"ok", "nokey", "fail"} :
         /\ ms[s][th].pc = "sending"
         /\ outcome = "nokey" => ms[s][th].key = 0
         /\ outcome # "ok" => FaultsOf(StreamIds) < MaxFaults
         /\ ms' = [ms EXCEPT ![s] = sendResolved(ms[s], th, outcome)]
    /\ UNCHANGED <<streams, turns, down, retry, rsm, call>>

\* a suspended call resumes after its awaited callee returned
Resume(s) ==
    /\ ms[s].alive
    /\ \E th \in Threads :
         /\ ms[s][th].pc = "ret"
         /\ ms' = [ms EXCEPT ![s] = resume(ms[s], th)]
    /\ UNCHANGED <<streams, turns, down, retry, rsm, call>>

\* a direct caller: stream.append(text)
CallAppend(s) ==
    /\ ms[s].alive
    /\ ms[s].nAppends < MaxAppends
    /\ \E text \in Fragments : ms' = [ms EXCEPT ![s] = append(ms[s], text)]
    /\ UNCHANGED <<streams, turns, down, retry, rsm, call>>

\* a direct caller: stream.finalize()
CallFinalize(s) ==
    /\ ms[s].alive
    /\ ms' = [ms EXCEPT ![s] = finalize(ms[s])]
    /\ UNCHANGED <<streams, turns, down, retry, rsm, call>>

\* a direct caller: stream.cancel()
CallCancel(s) ==
    /\ ms[s].alive
    /\ ms' = [ms EXCEPT ![s] = cancel(ms[s])]
    /\ UNCHANGED <<streams, turns, down, retry, rsm, call>>

\* the payload a step hands to the transport, as a one-element set
Sent(s) ==
    IF Len(ms'[s].log) = Len(ms[s].log) + 1
    THEN {ms'[s].log[Len(ms'[s].log)]}
    ELSE {}

(* ---- one stream, driven directly (as the unit tests drive it) ---- *)


\* a withRetry call before it is made
\*   pc         "idle" | "calling" (awaiting operation()) | "sleeping"
\*              (awaiting sleep(delay)) | "returned" | "thrown"
\*   attempt    the loop variable
\*   calls      invocations of operation (history)
\*   sleeps     sleep() calls (history)
\*   warns      logger.warn calls (history)
\*   errors     logger.error calls (history)
\*   errs       the error of each failed invocation, in order (history)
\*   thrown     index in errs of the error withRetry rethrew, 0 for none
\*   delay      the delay of the latest sleep, in ms
IdleRetry ==
    [pc |-> "idle", maxRetries |-> 0, attempt |-> 0, calls |-> 0,
     sleeps |-> 0, warns |-> 0, errors |-> 0, errs |-> <<>>, thrown |-> 0,
     delay |-> 0]

\* no function call is being looked at
NoCall == [fn |-> "none"]

\* a ReactionStateMachine right after its constructor
\*   state      _state, "null" for null
\*   inflight   sendReaction calls not yet settled, by request number
\*   log        emoji of every sendReaction call, in call order (history)
\*   seen       _state as it was at every sendReaction call (history)
\*   n          transition and clear requests made (history)
\*   last       the latest request and what transition() answers (history)
\*   reqs       every request: its target ("null" for clear), whether it
\*              passed the checks, what its promise settled to, the phase of
\*              its send ("ok"/"bad": an attempt that the transport took or
\*              refused, "sleeping": between two attempts) and whether the
\*              send function rejected (history)
\*   wire       requests whose reaction the transport took, in order
\*   faults     attempts the transport refused (history)
IdleRsm ==
    [state |-> "null", inflight |-> {}, log |-> <<>>, seen |-> <<>>, n |-> 0,
     last |-> [next |-> "null", accepted |-> FALSE],
     reqs |-> <<>>, wire |-> <<>>, faults |-> 0]

Init ==
    /\ ms = [s \in StreamIds |-> IF s = 1 THEN NewStream("A") ELSE NoStream]
    /\ streams = [j \in JIDs |-> 0]
    /\ turns = IdleTurns
    /\ down = FALSE
    /\ retry = IdleRetry
    /\ rsm = IdleRsm
    /\ call = NoCall

Next ==
    \/ Tick(1)
    \/ SendSettles(1)
    \/ Resume(1)
    \/ CallAppend(1)
    \/ CallFinalize(1)
    \/ CallCancel(1)

Spec == Init /\ [][Next]_vars

(* ------------------------------------------------------------------ *)
(* Claims about one MessageStream                                      *)
(* ------------------------------------------------------------------ *)

Alive == {s \in StreamIds : ms[s].alive}

\* the p-th non-whitespace character append() accepted is part of a payload
\* that was handed to the transport
Included(r, p) ==
    \E i \in 1..Len(r.log) :
        r.log[i].off < p /\ p <= r.log[i].off + NonWsLen(r.log[i].text)

\* C1: once finalize() has resolved on a stream that was not cancelled and
\* whose transport never failed, every character of every fragment that
\* append() accepted (whitespace aside, which trim removes) has been
\* included in a payload handed to the transport.
C1_FinalizeDrainsEverything ==
    \A s \in Alive :
        (FinalizeResolved(ms[s]) /\ ~ms[s].cancelled /\ ms[s].faults = 0)
            => \A p \in 1..NonWsLen(ms[s].accepted) : Included(ms[s], p)

\* C2: a stream never has more than one transport send in flight.
C2_AtMostOneSendInFlight ==
    \A s \in Alive : Cardinality(InFlight(ms[s])) <= 1

\* C3: after finalize() has resolved, no step hands a further payload to
\* the transport.
C3_NoSendAfterFinalizeResolved ==
    [][\A s \in Alive :
          FinalizeResolved(ms[s]) => ms'[s].log = ms[s].log]_vars

FreeIds == {s \in StreamIds : ~ms[s].alive}

\* the two results of a manager call: the heap and the registry
Mgr(heap, reg) == [ms |-> heap, streams |-> reg]

\* a create that registers the new stream and leaves the old one running
createNoCancel(heap, reg, jid, id, owner) ==
    Mgr([heap EXCEPT ![id] = [NewStream(jid) EXCEPT !.owner = owner]],
        [reg EXCEPT ![jid] = id])

\* a create that cancels the streams of every conversation
createCancelsAll(heap, reg, jid, id, owner) ==
    LET tracked == {reg[j] : j \in JIDs} \ {0}
        heap1 == [s \in StreamIds |->
                    IF s \in tracked /\ ~heap[s].finalized
                    THEN [cancel(heap[s]) EXCEPT
                            !.superseded = @ \/ ~heap[s].cancelled]
                    ELSE heap[s]]
    IN Mgr([heap1 EXCEPT ![id] = [NewStream(jid) EXCEPT !.owner = owner]],
           [reg EXCEPT ![jid] = id])

\* StreamManager.create(jid, socket, logger), constructing object id for
\* turn owner
create(heap, reg, jid, id, owner) ==
    LET existing == reg[jid]
        heap1 == IF existing # 0 /\ ~heap[existing].finalized
                 THEN [heap EXCEPT ![existing] =
                         [cancel(heap[existing]) EXCEPT
                            !.superseded = @ \/ ~heap[existing].cancelled]]
                 ELSE heap
    IN Mgr([heap1 EXCEPT ![id] = [NewStream(jid) EXCEPT !.owner = owner]],
           [reg EXCEPT ![jid] = id])

\* StreamManager.get(jid): the registry afterwards
getEvicts(heap, reg, jid) ==
    LET stream == reg[jid]
    IN stream # 0 /\ (heap[stream].finalized \/ heap[stream].cancelled)

\* a get that returns whatever is registered
getAnything(heap, reg, jid) == reg[jid]

\* StreamManager.get(jid): the stream returned, 0 for undefined
get(heap, reg, jid) ==
    IF getEvicts(heap, reg, jid) THEN 0 ELSE reg[jid]

\* StreamManager.interrupt(jid): the value returned
interruptReturns(heap, reg, jid) ==
    reg[jid] # 0 /\ ~heap[reg[jid]].finalized

\* an interrupt that removes the entry whatever the state of its stream
interruptAlwaysDeletes(heap, reg, jid) ==
    LET stream == reg[jid]
    IN IF stream # 0
       THEN Mgr([heap EXCEPT ![stream] = cancel(heap[stream])],
                [reg EXCEPT ![jid] = 0])
       ELSE Mgr(heap, reg)

\* StreamManager.interrupt(jid)
interrupt(heap, reg, jid) ==
    LET stream == reg[jid]
    IN IF stream # 0 /\ ~heap[stream].finalized
       THEN Mgr([heap EXCEPT ![stream] = cancel(heap[stream])],
                [reg EXCEPT ![jid] = 0])
       ELSE Mgr(heap, reg)

\* a StreamManager.finalize that leaves the entry in the registry
finalizeKeeps(reg, jid) == reg

\* StreamManager.finalize(jid) after `await stream.finalize()`
finalizeDelete(reg, jid) == [reg EXCEPT ![jid] = 0]

\* StreamManager.cancelAll()
cancelAll(heap, reg) ==
    LET tracked == {reg[j] : j \in JIDs} \ {0}
    IN Mgr([s \in StreamIds |->
               IF s \in tracked
               THEN [(IF heap[s].finalized THEN heap[s] ELSE cancel(heap[s]))
                        EXCEPT !.shut = TRUE]
               ELSE heap[s]],
           [j \in JIDs |-> 0])

(* ------------------------------------------------------------------ *)
(* ReactionStateMachine: the transition table (reactions.ts)          *)
(* ------------------------------------------------------------------ *)

\* a transition table in which active may go back to queued
VALID_TRANSITIONS_Reopen ==
    [queued |-> {"active", "done", "error", "timeout"},
     active |-> {"queued", "done", "error", "timeout"},
     done |-> {}, error |-> {}, timeout |-> {}]

\* VALID_TRANSITIONS
VALID_TRANSITIONS ==
    [queued |-> {"active", "done", "error", "timeout"},
     active |-> {"done", "error", "timeout"},
     done |-> {}, error |-> {}, timeout |-> {}]

\* isTerminal
isTerminal(state) == state \in {"done", "error", "timeout"}

\* transition(newState): whether the request passes the checks before
\* `const emoji = ...`
transitionAccepts(state, newState) ==
    IF state = "null" THEN newState = "queued"
    ELSE IF isTerminal(state) THEN FALSE
    ELSE newState \in VALID_TRANSITIONS[state]

\* _state after `await reactionSM.transition(newState)`
stateAfter(state, newState) ==
    IF transitionAccepts(state, newState) THEN newState ELSE state

(* ------------------------------------------------------------------ *)
(* handleIncomingMessage / injectMessage / handleStreamChunk           *)
(* ------------------------------------------------------------------ *)

\* fragments the backend streams
ChunkFragments == { <<"a">> }

\* handleIncomingMessage up to `await reactionSM.transition("queued")`: a
\* new inbound message interrupts the stream of its conversation and its
\* reaction machine is queued.  Messages are numbered in their order of
\* arrival.
ArriveAt(t, jid) ==
    /\ ~MicrotaskPending
    /\ ~down
    /\ turns[t].pc = "idle"
    /\ \A u \in TurnIds : u < t => turns[u].pc # "idle"
    /\ LET m == interrupt(ms, streams, jid)
       IN /\ ms' = m.ms
          /\ streams' = m.streams
          /\ turns' = [turns EXCEPT ![t] =
                         [IdleTurn EXCEPT
                            !.pc = "queued", !.jid = jid,
                            !.reaction = stateAfter("null", "queued")]]
    /\ UNCHANGED <<down, retry, rsm, call>>

\* a message of conversation A arrives
Arrive(t) == ArriveAt(t, "A")

\* injectMessage up to `await reactionSM.transition("active")`; it returns
\* at once when the context or the socket is gone
InjectCreates(t) ==
    /\ ~MicrotaskPending
    /\ turns[t].pc = "queued"
    /\ IF down
       THEN /\ turns' = [turns EXCEPT ![t].pc = "done"]
            /\ UNCHANGED <<ms, streams>>
       ELSE /\ FreeIds # {}
            /\ LET m == create(ms, streams, turns[t].jid, SetMin(FreeIds), t)
               IN /\ ms' = m.ms
                  /\ streams' = m.streams
            /\ turns' = [turns EXCEPT
                           ![t].pc = "activating",
                           ![t].reaction = stateAfter(@, "active")]
    /\ UNCHANGED <<down, retry, rsm, call>>

\* injectMessage: startTypingIndicator, then ctx.inject is called
InjectCalls(t) ==
    /\ ~MicrotaskPending
    /\ turns[t].pc = "activating"
    /\ turns' = [turns EXCEPT ![t].pc = "inject", ![t].injects = @ + 1]
    /\ UNCHANGED <<ms, streams, down, retry, rsm, call>>

RECURSIVE ChunksOf(_)
\* fragments the backend produced for the turns in T
ChunksOf(T) ==
    IF T = {} THEN 0
    ELSE LET t == CHOOSE x \in T : TRUE
         IN turns[t].chunks + ChunksOf(T \ {t})

\* onStream: handleStreamChunk(msg, jid) with a fragment from frags; a
\* chunk that finds a stream counts against max
StreamChunkFrom(t, frags, max) ==
    /\ ~MicrotaskPending
    /\ turns[t].pc = "inject"
    /\ \E text \in frags :
         LET jid == turns[t].jid
             stream == get(ms, streams, jid)
         IN /\ stream # 0 => ChunksOf(TurnIds) < max
            /\ streams' = IF getEvicts(ms, streams, jid)
                          THEN [streams EXCEPT ![jid] = 0] ELSE streams
            /\ ms' = IF stream # 0
                     THEN [ms EXCEPT ![stream] = append(ms[stream], text)]
                     ELSE ms
            /\ turns' = IF stream # 0
                        THEN [turns EXCEPT ![t].chunks = @ + 1] ELSE turns
    /\ UNCHANGED <<down, retry, rsm, call>>

\* onStream with the short fragments of the many-turn runs
StreamChunk(t) == StreamChunkFrom(t, ChunkFragments, MaxChunks)

\* ctx.inject resolves: StreamManager.finalize(jid) up to its await
InjectResolves(t) ==
    /\ ~MicrotaskPending
    /\ turns[t].pc = "inject"
    /\ LET stream == streams[turns[t].jid]
       IN IF stream # 0
          THEN /\ ms' = [ms EXCEPT ![stream] = finalize(ms[stream])]
               /\ turns' = [turns EXCEPT ![t].pc = "finalizing",
                                         ![t].stream = stream,
                                         ![t].waits = ~ms[stream].finalized]
          ELSE /\ ms' = ms
               /\ turns' = [turns EXCEPT ![t].pc = "responding",
                                         ![t].didStream = FALSE]
    /\ UNCHANGED <<streams, down, retry, rsm, call>>

\* StreamManager.finalize(jid) after `await stream.finalize()`: delete the
\* registry entry and return didStream
FinalizeReturns(t) ==
    /\ FinalizeAwaitOver(t)
    /\ streams' = finalizeDelete(streams, turns[t].jid)
    /\ turns' = [turns EXCEPT ![t].pc = "responding",
                              ![t].stream = 0, ![t].waits = FALSE,
                              ![t].didStream = ms[turns[t].stream].didStream]
    /\ UNCHANGED <<ms, down, retry, rsm, call>>

\* ctx.inject rejects, or sendResponse (called when nothing was streamed)
\* rejects: the catch block
Throws(t) ==
    /\ ~MicrotaskPending
    /\ \/ turns[t].pc = "inject"
       \/ turns[t].pc = "responding" /\ ~turns[t].didStream
    /\ turns' = [turns EXCEPT ![t].pc = "failing", ![t].didStream = FALSE,
                              ![t].reaction = stateAfter(@, "error")]
    /\ UNCHANGED <<ms, streams, down, retry, rsm, call>>

\* the finally block of injectMessage: streamManager.interrupt(jid).  After
\* a failure of a text message, handleIncomingMessage's catch block runs
\* injectMessage once more; a media-only message, or the second failure,
\* ends the handling.
Finally(t) ==
    /\ ~MicrotaskPending
    /\ turns[t].pc \in {"responding", "failing"}
    /\ LET m == interrupt(ms, streams, turns[t].jid)
       IN /\ ms' = m.ms
          /\ streams' = m.streams
    /\ \/ turns' = [turns EXCEPT
                      ![t].pc = "done", ![t].didStream = FALSE,
                      ![t].reaction = IF turns[t].pc = "responding"
                                      THEN stateAfter(@, "done") ELSE @]
       \/ /\ turns[t].pc = "failing" /\ ~turns[t].again
          /\ turns' = [turns EXCEPT ![t].pc = "queued", ![t].again = TRUE]
    /\ UNCHANGED <<down, retry, rsm, call>>

\* plugin.shutdown(): streamManager.cancelAll()
Shutdown ==
    /\ ~MicrotaskPending
    /\ ~down
    /\ down' = TRUE
    /\ LET m == cancelAll(ms, streams)
       IN /\ ms' = m.ms
          /\ streams' = m.streams
    /\ UNCHANGED <<turns, retry, rsm, call>>

InitMgr ==
    /\ ms = [s \in StreamIds |-> NoStream]
    /\ streams = [j \in JIDs |-> 0]
    /\ turns = IdleTurns
    /\ down = FALSE
    /\ retry = IdleRetry
    /\ rsm = IdleRsm
    /\ call = NoCall

NextMgr ==
    \/ \E t \in TurnIds :
         \/ Arrive(t)
         \/ InjectCreates(t)
         \/ InjectCalls(t)
         \/ StreamChunk(t)
         \/ InjectResolves(t)
         \/ FinalizeReturns(t)
         \/ Throws(t)
         \/ Finally(t)
    \/ Shutdown
    \/ \E s \in StreamIds :
         \/ Tick(s)
         \/ SendSettles(s)
         \/ Resume(s)

SpecMgr == InitMgr /\ [][NextMgr]_vars

(* ------------------------------------------------------------------ *)
(* Claims about StreamManager and the turns that use it                *)
(* ------------------------------------------------------------------ *)

\* neither cancelled nor finalized
Live(r) == r.alive /\ ~r.cancelled /\ ~r.finalized

\* the streams this StreamManager has created for conversation jid
CreatedFor(jid) == {s \in Alive : ms[s].jid = jid}

\* the most recently created stream of conversation jid, 0 for none
Newest(jid) == IF CreatedFor(jid) = {} THEN 0 ELSE SetMax(CreatedFor(jid))

\* this step is the completion of turn t's StreamManager.finalize or the
\* interrupt in the finally block of its injectMessage
CleansUp(t) ==
    /\ turns[t].pc \in {"finalizing", "responding", "failing"}
    /\ turns'[t].pc \notin {turns[t].pc, "failing"}

\* C5: among the streams created for one conversation at most one is
\* neither cancelled nor finalized.
C5_AtMostOneLiveStream ==
    \A jid \in JIDs :
        Cardinality({s \in CreatedFor(jid) : Live(ms[s])}) <= 1

\* C6: the completion or cleanup of a turn neither cancels the stream that
\* a newer turn of the same conversation created, nor removes it from the
\* registry.
C6_NewerTurnWins ==
    [][\A t \in TurnIds :
          LET jid == turns[t].jid
              s == Newest(jid)
          IN (s # 0 /\ ms[s].owner # t /\ CleansUp(t)) =>
                 /\ ms'[s].cancelled = ms[s].cancelled
                 /\ streams[jid] = s => streams'[jid] = s]_vars

(* ------------------------------------------------------------------ *)
(* RetryEngine (retry.ts)                                              *)
(* ------------------------------------------------------------------ *)

PERMANENT_STATUS_CODES == {400, 401, 403, 404, 410}

RATE_LIMIT_STATUS_CODES == {429, 503}

\* A thrown value, as far as classifyError looks at it:
\*   status  what getErrorStatusCode extracts, 0 for undefined
\*   perm    the message matches one of PERMANENT_ERROR_PATTERNS
\*   net     the message matches the connection/network expression
Err(status, perm, net) == [status |-> status, perm |-> perm, net |-> net]

\* a classifyError that looks at the message before the rate-limit codes
classifyErrorMessageFirst(err) ==
    IF err.status # 0 /\ err.status \in PERMANENT_STATUS_CODES THEN "permanent"
    ELSE IF err.perm THEN "permanent"
    ELSE IF err.status # 0 /\ err.status \in RATE_LIMIT_STATUS_CODES THEN "retryable"
    ELSE "retryable"

\* classifyError(err)
classifyError(err) ==
    IF err.status # 0 /\ err.status \in PERMANENT_STATUS_CODES THEN "permanent"
    ELSE IF err.status # 0 /\ err.status \in RATE_LIMIT_STATUS_CODES THEN "retryable"
    ELSE IF err.perm THEN "permanent"
    ELSE IF err.net THEN "retryable"
    ELSE "retryable"

\* DEFAULT_RETRY_CONFIG; jitter in hundredths
DEFAULT_RETRY_CONFIG ==
    [maxRetries |-> 3, baseDelay |-> 1000, maxDelay |-> 30000, jitter |-> 20]

\* the retry-after fields of a thrown object, <<>> for a field that is
\* absent or not a number: err.retryAfter and err.retry_after (seconds),
\* err.retryAfterMs (milliseconds), err.data.retry_after (seconds)
After(retryAfter, retry_after, retryAfterMs, data) ==
    [retryAfter |-> retryAfter, retry_after |-> retry_after,
     retryAfterMs |-> retryAfterMs, data |-> data]

NoAfter == After(<<>>, <<>>, <<>>, <<>>)

\* a thrown object with retry-after fields
ErrAfter(err, after) ==
    [status |-> err.status, perm |-> err.perm, net |-> err.net,
     after |-> after]

\* extractRetryAfter(err) in milliseconds, <<>> for null
extractRetryAfter(err) ==
    LET e == err.after
    IN IF e.retryAfter # <<>> /\ e.retryAfter[1] > 0
       THEN <<e.retryAfter[1] * 1000>>
       ELSE IF e.retry_after # <<>> /\ e.retry_after[1] > 0
       THEN <<e.retry_after[1] * 1000>>
       ELSE IF e.retryAfterMs # <<>> /\ e.retryAfterMs[1] > 0
       THEN <<e.retryAfterMs[1]>>
       ELSE IF e.data # <<>> THEN <<e.data[1] * 1000>>
       ELSE <<>>

MathMin(a, b) == IF a <= b THEN a ELSE b

MathMax(a, b) == IF a >= b THEN a ELSE b

\* Math.round(p / q) for q > 0: the integer nearest to p / q, halves up
MathRound(p, q) == (2 * p + q) \div (2 * q)

RECURSIVE Pow2(_)
\* 2 ** n
Pow2(n) == IF n = 0 THEN 1 ELSE 2 * Pow2(n - 1)

\* a calculateDelay that does not cap the backoff at maxDelay
calculateDelayNoCap(attempt, config, retryAfterMs, rnd) ==
    IF retryAfterMs # <<>> /\ retryAfterMs[1] > 0
    THEN MathMin(retryAfterMs[1], config.maxDelay)
    ELSE LET capped == config.baseDelay * Pow2(attempt)
         IN MathMax(0, MathRound(
                capped * 100 * RandomDen
                    + (2 * rnd - RandomDen) * capped * config.jitter,
                100 * RandomDen))

\* a calculateDelay that adds the jitter to the hint
calculateDelayJitteredHint(attempt, config, retryAfterMs, rnd) ==
    LET exponential == config.baseDelay * Pow2(attempt)
        capped == IF retryAfterMs # <<>> /\ retryAfterMs[1] > 0
                  THEN MathMin(retryAfterMs[1], config.maxDelay)
                  ELSE MathMin(exponential, config.maxDelay)
    IN MathMax(0, MathRound(
           capped * 100 * RandomDen
               + (2 * rnd - RandomDen) * capped * config.jitter,
           100 * RandomDen))

\* calculateDelay(attempt, config, retryAfterMs) when Math.random()
\* returns rnd / RandomDen; retryAfterMs is <<>> for null
calculateDelay(attempt, config, retryAfterMs, rnd) ==
    IF retryAfterMs # <<>> /\ retryAfterMs[1] > 0
    THEN MathMin(retryAfterMs[1], config.maxDelay)
    ELSE LET exponential == config.baseDelay * Pow2(attempt)
             capped == MathMin(exponential, config.maxDelay)
         IN MathMax(0, MathRound(
                capped * 100 * RandomDen
                    + (2 * rnd - RandomDen) * capped * config.jitter,
                100 * RandomDen))

\* errors the wrapped operation may throw
OpErrors ==
    { ErrAfter(e, NoAfter) :
        e \in { Err(404, FALSE, FALSE), Err(429, TRUE, FALSE),
                Err(500, FALSE, FALSE), Err(0, TRUE, TRUE),
                Err(0, FALSE, TRUE), Err(0, FALSE, FALSE) } }
    \cup { ErrAfter(Err(429, FALSE, FALSE), After(<<5>>, <<>>, <<>>, <<>>)),
           ErrAfter(Err(429, FALSE, FALSE), After(<<>>, <<60>>, <<250>>, <<>>)),
           ErrAfter(Err(503, FALSE, FALSE), After(<<0>>, <<>>, <<250>>, <<1>>)),
           ErrAfter(Err(503, FALSE, FALSE), After(<<>>, <<>>, <<>>, <<0>>)) }

\* cfg = {...DEFAULT_RETRY_CONFIG, ...config} of a withRetry call
retryCfg(r) == [DEFAULT_RETRY_CONFIG EXCEPT !.maxRetries = r.maxRetries]

\* withRetry: one pass of the loop head, `attempt <= cfg.maxRetries`, into
\* `await operation()`; the statement after the loop rethrows lastError
retryInvoke(r) ==
    IF r.attempt <= r.maxRetries
    THEN [r EXCEPT !.pc = "calling", !.calls = @ + 1]
    ELSE [r EXCEPT !.pc = "thrown", !.thrown = Len(r.errs)]

\* withRetry: `return await operation()` with operation() resolved
retrySucceeded(r) == [r EXCEPT !.pc = "returned"]

\* the catch block with the exhaustion test off by one (attempt > maxRetries)
retryCaughtOffByOne(r, err, rnd) ==
    LET r1 == [r EXCEPT !.errs = Append(@, err)]
    IN IF classifyError(err) = "permanent"
       THEN [r1 EXCEPT !.pc = "thrown", !.errors = @ + 1, !.thrown = Len(r1.errs)]
       ELSE IF r.attempt > r.maxRetries
       THEN [r1 EXCEPT !.pc = "thrown", !.errors = @ + 1, !.thrown = Len(r1.errs)]
       ELSE [r1 EXCEPT !.pc = "sleeping", !.warns = @ + 1, !.sleeps = @ + 1,
                       !.delay = calculateDelay(r.attempt, retryCfg(r),
                                                extractRetryAfter(err), rnd)]

\* the catch block without the warning before the sleep
retryCaughtNoWarn(r, err, rnd) ==
    LET r1 == [r EXCEPT !.errs = Append(@, err)]
    IN IF classifyError(err) = "permanent"
       THEN [r1 EXCEPT !.pc = "thrown", !.errors = @ + 1, !.thrown = Len(r1.errs)]
       ELSE IF r.attempt >= r.maxRetries
       THEN [r1 EXCEPT !.pc = "thrown", !.errors = @ + 1, !.thrown = Len(r1.errs)]
       ELSE [r1 EXCEPT !.pc = "sleeping", !.sleeps = @ + 1,
                       !.delay = calculateDelay(r.attempt, retryCfg(r),
                                                extractRetryAfter(err), rnd)]

\* the catch block without the test for a permanent error
retryCaughtNoFailFast(r, err, rnd) ==
    LET r1 == [r EXCEPT !.errs = Append(@, err)]
    IN IF r.attempt >= r.maxRetries
       THEN [r1 EXCEPT !.pc = "thrown", !.errors = @ + 1, !.thrown = Len(r1.errs)]
       ELSE [r1 EXCEPT !.pc = "sleeping", !.warns = @ + 1, !.sleeps = @ + 1,
                       !.delay = calculateDelay(r.attempt, retryCfg(r),
                                                extractRetryAfter(err), rnd)]

\* withRetry: the catch block, up to `throw err` or `await sleep(delay)`
retryCaught(r, err, rnd) ==
    LET r1 == [r EXCEPT !.errs = Append(@, err)]
    IN IF classifyError(err) = "permanent"
       THEN [r1 EXCEPT !.pc = "thrown", !.errors = @ + 1, !.thrown = Len(r1.errs)]
       ELSE IF r.attempt >= r.maxRetries
       THEN [r1 EXCEPT !.pc = "thrown", !.errors = @ + 1, !.thrown = Len(r1.errs)]
       ELSE [r1 EXCEPT !.pc = "sleeping", !.warns = @ + 1, !.sleeps = @ + 1,
                       !.delay = calculateDelay(r.attempt, retryCfg(r),
                                                extractRetryAfter(err), rnd)]

\* withRetry(operation, label, logger, {maxRetries}) is called
RetryStart ==
    /\ retry.pc = "idle"
    /\ \E n \in 0..MaxRetriesBound :
         retry' = retryInvoke([IdleRetry EXCEPT !.maxRetries = n])
    /\ UNCHANGED <<ms, streams, turns, down, rsm, call>>

\* operation() resolves
OpResolves ==
    /\ retry.pc = "calling"
    /\ retry' = retrySucceeded(retry)
    /\ UNCHANGED <<ms, streams, turns, down, rsm, call>>

\* operation() rejects
OpRejects ==
    /\ retry.pc = "calling"
    /\ \E err \in OpErrors, rnd \in 0..(RandomDen - 1) :
         retry' = retryCaught(retry, err, rnd)
    /\ UNCHANGED <<ms, streams, turns, down, rsm, call>>

\* sleep(delay) resolves: attempt++ and the next pass of the loop
RetryWakes ==
    /\ retry.pc = "sleeping"
    /\ retry' = retryInvoke([retry EXCEPT !.attempt = @ + 1])
    /\ UNCHANGED <<ms, streams, turns, down, rsm, call>>

NextRetry == RetryStart \/ OpResolves \/ OpRejects \/ RetryWakes

SpecRetry == Init /\ [][NextRetry]_vars

\* every failed invocation so far failed with a retryable error
AllRetryable == \A i \in 1..Len(retry.errs) : classifyError(retry.errs[i]) = "retryable"

\* classifyError classifies the error of failed invocation i as permanent
PermanentAt(i) == classifyError(retry.errs[i]) = "permanent"

\* C7: an invocation that fails with a permanent error is the last one:
\* withRetry has rethrown that very error, did not sleep after it and
\* logged no warning for it; if it was the first invocation the operation
\* was invoked exactly once.  Once withRetry has thrown, nothing is invoked.
C7_PermanentFailsFast ==
    /\ [](\A i \in 1..Len(retry.errs) :
            PermanentAt(i) =>
                /\ i = Len(retry.errs)
                /\ retry.pc = "thrown" /\ retry.thrown = i
                /\ retry.calls = i /\ retry.sleeps = i - 1 /\ retry.warns = i - 1)
    /\ [][retry.pc = "thrown" => retry' = retry]_vars

\* C7 witness: the first invocation failed permanently under maxRetries 3.
C7_Witness ==
    /\ retry.maxRetries = 3 /\ retry.pc = "thrown" /\ retry.calls = 1
    /\ classifyError(retry.errs[1]) = "permanent"

\* C8: the operation is invoked at least once and at most maxRetries + 1
\* times; when every invocation failed with a retryable error and
\* withRetry has thrown, it was invoked exactly maxRetries + 1 times with
\* exactly maxRetries sleeps and the error rethrown is the last one.
C8_BoundedRetries ==
    /\ retry.calls <= retry.maxRetries + 1
    /\ retry.pc # "idle" => retry.calls >= 1
    /\ retry.sleeps <= retry.maxRetries
    /\ (retry.pc = "thrown" /\ AllRetryable) =>
           /\ retry.calls = retry.maxRetries + 1
           /\ retry.sleeps = retry.maxRetries
           /\ Len(retry.errs) = retry.maxRetries + 1
           /\ retry.thrown = retry.maxRetries + 1

\* C8 witness: maxRetries 2, three retryable failures, thrown.
C8_Witness ==
    /\ retry.maxRetries = 2 /\ retry.pc = "thrown" /\ AllRetryable
    /\ retry.calls = 3

\* C9: when withRetry has returned after k failed invocations, those
\* failures were retryable, k <= maxRetries, the operation was invoked
\* k + 1 times, and there were exactly k sleeps and k warnings; after the
\* return the operation is not invoked again.
C9_ReturnsFirstSuccess ==
    /\ [](retry.pc = "returned" =>
            LET k == Len(retry.errs)
            IN /\ AllRetryable /\ k <= retry.maxRetries
               /\ retry.calls = k + 1 /\ retry.sleeps = k /\ retry.warns = k
               /\ retry.errors = 0 /\ retry.thrown = 0)
    /\ [][retry.pc = "returned" => retry' = retry]_vars

\* C9 witness: two retryable failures, then success.
C9_Witness ==
    /\ retry.pc = "returned" /\ Len(retry.errs) = 2 /\ retry.calls = 3

(* ------------------------------------------------------------------ *)
(* ReactionStateMachine (reactions.ts)                                 *)
(* ------------------------------------------------------------------ *)

ReactionStates == {"queued", "active", "done", "error", "timeout"}

\* DEFAULT_REACTION_EMOJIS
DEFAULT_REACTION_EMOJIS ==
    [queued |-> "hourglass", active |-> "arrows", done |-> "check",
     error |-> "cross", timeout |-> "clock"]

\* what transition() does once a request passed or failed its checks:
\* the answer, and for a passed one the assignment to _state followed by
\* the sendReaction call
transitionTo(r, newState, ok) ==
    LET q  == [next |-> newState, accepted |-> ok,
               result |-> IF ok THEN "pending" ELSE "false",
               phase |-> "none", sendFailed |-> FALSE]
        r1 == [r EXCEPT !.n = @ + 1, !.reqs = Append(@, q),
                        !.last = [next |-> newState, accepted |-> ok]]
        r2 == [r1 EXCEPT !.state = newState]
    IN IF ~ok THEN r1
       ELSE [r2 EXCEPT !.log = Append(@, DEFAULT_REACTION_EMOJIS[newState]),
                       !.seen = Append(@, r2.state),
                       !.inflight = @ \cup {r.n + 1}]

\* transition() whose terminal-state check is missing
transitionNoTerminalCheck(r, newState) ==
    transitionTo(r, newState,
                 IF r.state = "null" THEN newState = "queued"
                 ELSE newState \in {"active", "done", "error", "timeout"})

\* transition() that calls sendReaction before it assigns _state
transitionSendsFirst(r, newState) ==
    LET ok == transitionAccepts(r.state, newState)
        r1 == transitionTo(r, newState, ok)
    IN IF ~ok THEN r1
       ELSE [r1 EXCEPT !.seen = Append(r.seen, r.state)]

\* transition(newState), up to `await this.sendReaction(...)` or to the
\* `return false`
transition(r, newState) ==
    transitionTo(r, newState, transitionAccepts(r.state, newState))

\* clear(), up to `await this.sendReaction(chatJid, messageId, "")`
clear(r) ==
    LET q == [next |-> "null", accepted |-> FALSE, result |-> "pending",
              phase |-> "none", sendFailed |-> FALSE]
    IN [r EXCEPT !.n = @ + 1, !.reqs = Append(@, q),
                 !.last = [next |-> "null", accepted |-> FALSE],
                 !.log = Append(@, ""), !.seen = Append(@, r.state),
                 !.inflight = @ \cup {r.n + 1}]

\* sendReactionInternal: the operation withRetry invokes, sock.sendMessage
\* with the react payload; the transport takes it or refuses it
sendAttempt(r, i, taken) ==
    IF taken
    THEN [r EXCEPT !.reqs[i].phase = "ok", !.wire = Append(@, i)]
    ELSE [r EXCEPT !.reqs[i].phase = "bad", !.faults = @ + 1]

\* the first attempt of the send function, in the synchronous part of the
\* request that called it
sendCalled(r, taken) ==
    IF r.n \in r.inflight /\ r.reqs[r.n].phase = "none"
    THEN sendAttempt(r, r.n, taken)
    ELSE r

\* what transition() and clear() resolve to after the try/catch
answer(r, i) == IF r.reqs[i].next = "null" THEN "void" ELSE "true"

\* the await in transition()/clear() when sendReaction resolved
sendReactionResolved(r, i) ==
    [r EXCEPT !.inflight = @ \ {i}, !.reqs[i].phase = "none",
              !.reqs[i].result = answer(r, i)]

\* a catch block that restores previousState
sendReactionRejectedRollsBack(r, i) ==
    [r EXCEPT !.inflight = @ \ {i}, !.reqs[i].phase = "none",
              !.reqs[i].sendFailed = TRUE,
              !.reqs[i].result = answer(r, i),
              !.state = IF r.reqs[i].next = "null" THEN @
                        ELSE IF i = 1 THEN "null" ELSE "queued"]

\* the catch block in transition()/clear() when sendReaction rejected
sendReactionRejected(r, i) ==
    [r EXCEPT !.inflight = @ \ {i}, !.reqs[i].phase = "none",
              !.reqs[i].sendFailed = TRUE,
              !.reqs[i].result = answer(r, i)]

\* a caller requests a transition
Transition ==
    /\ rsm.n < MaxRequests
    /\ \E newState \in ReactionStates, taken \in BOOLEAN :
         /\ ~taken => rsm.faults < MaxFaults
         /\ rsm' = sendCalled(transition(rsm, newState), taken)
    /\ UNCHANGED <<ms, streams, turns, down, retry, call>>

\* a caller clears the reaction
Clear ==
    /\ rsm.n < MaxRequests
    /\ \E taken \in BOOLEAN :
         /\ ~taken => rsm.faults < MaxFaults
         /\ rsm' = sendCalled(clear(rsm), taken)
    /\ UNCHANGED <<ms, streams, turns, down, retry, call>>

\* a sendReaction call resolves; transition() then returns true and
\* clear() returns
ReactionSettles ==
    /\ \E i \in rsm.inflight :
         /\ rsm.reqs[i].phase = "ok"
         /\ rsm' = sendReactionResolved(rsm, i)
    /\ UNCHANGED <<ms, streams, turns, down, retry, call>>

\* an attempt fails with a permanent error or with the retries used up:
\* withRetry rethrows and sendReaction rejects
ReactionSendRejects ==
    /\ \E i \in rsm.inflight :
         /\ rsm.reqs[i].phase = "bad"
         /\ rsm' = sendReactionRejected(rsm, i)
    /\ UNCHANGED <<ms, streams, turns, down, retry, call>>

\* an attempt fails with a retryable error and retries left: withRetry
\* sleeps
ReactionSendSleeps ==
    /\ \E i \in rsm.inflight :
         /\ rsm.reqs[i].phase = "bad"
         /\ rsm' = [rsm EXCEPT !.reqs[i].phase = "sleeping"]
    /\ UNCHANGED <<ms, streams, turns, down, retry, call>>

\* withRetry's sleep is over: the next attempt
ReactionSendWakes ==
    /\ \E i \in rsm.inflight, taken \in BOOLEAN :
         /\ rsm.reqs[i].phase = "sleeping"
         /\ ~taken => rsm.faults < MaxFaults
         /\ rsm' = sendAttempt(rsm, i, taken)
    /\ UNCHANGED <<ms, streams, turns, down, retry, call>>

NextReaction ==
    \/ Transition
    \/ Clear
    \/ ReactionSettles
    \/ ReactionSendRejects
    \/ ReactionSendSleeps
    \/ ReactionSendWakes

SpecReaction == Init /\ [][NextReaction]_vars

\* C10: in a terminal state every transition request, for every target
\* state, is answered false, leaves the state as it is and calls the send
\* function for nothing; no step at all leaves a terminal state.
C10_TerminalAbsorbing ==
    [][isTerminal(rsm.state) =>
          /\ rsm'.state = rsm.state
          /\ rsm'.last.next # "null" /\ rsm'.n = rsm.n + 1 =>
                 /\ ~rsm'.last.accepted
                 /\ rsm'.log = rsm.log
                 /\ rsm'.inflight = rsm.inflight]_vars

\* C10 witness: a machine in done that was asked for a further transition
\* and refused it.
C10_Witness ==
    /\ rsm.state = "done" /\ rsm.last.next = "active" /\ ~rsm.last.accepted
    /\ rsm.log = <<"hourglass", "arrows", "check">>

\* the transition graph of the reaction lifecycle
FixedGraph ==
    {<<"null", "queued">>}
    \cup ({"queued"} \X {"active", "done", "error", "timeout"})
    \cup ({"active"} \X {"done", "error", "timeout"})

\* C11: every change of the reaction state is an edge of the fixed graph,
\* and a transition request that is not an edge from the current state is
\* answered false and leaves the state as it is.
C11_FixedGraphOnly ==
    [][/\ rsm'.state # rsm.state => <<rsm.state, rsm'.state>> \in FixedGraph
       /\ (/\ rsm'.n = rsm.n + 1
           /\ rsm'.last.next # "null"
           /\ <<rsm.state, rsm'.last.next>> \notin FixedGraph) =>
              /\ ~rsm'.last.accepted
              /\ rsm'.reqs[rsm'.n].result = "false"
              /\ rsm'.state = rsm.state
              /\ rsm'.log = rsm.log]_vars

\* C11 witness: an active machine that refused to go back to queued.
C11_Witness ==
    /\ rsm.state = "active" /\ rsm.n = 3
    /\ rsm.last.next = "queued" /\ ~rsm.last.accepted

\* no accepted transition was requested after request i
NoLaterAccepted(r, i) == \A j \in (i + 1)..r.n : ~r.reqs[j].accepted

\* C12: a transition's promise never rejects and settles to true exactly
\* when the request was accepted; at the step where the send of an
\* accepted transition rejects, the promise resolves to true and the state
\* is not touched: it is the requested one unless a later transition moved
\* it on, and every legal transition from it is still accepted.
C12_SendFailureKeepsState ==
    /\ [](\A i \in 1..rsm.n :
            LET q == rsm.reqs[i]
            IN q.next # "null" =>
                 /\ q.result \in {"pending", "true", "false"}
                 /\ q.result = "true" => q.accepted
                 /\ q.result = "false" <=> ~q.accepted)
    /\ [][\A i \in 1..rsm.n :
            (rsm.reqs[i].accepted /\ ~rsm.reqs[i].sendFailed
                 /\ rsm'.reqs[i].sendFailed) =>
                /\ rsm'.reqs[i].result = "true"
                /\ rsm'.state = rsm.state
                /\ NoLaterAccepted(rsm, i) =>
                       /\ rsm'.state = rsm.reqs[i].next
                       /\ \A x \in ReactionStates :
                            <<rsm.reqs[i].next, x>> \in FixedGraph =>
                                transitionAccepts(rsm'.state, x)]_vars

\* C12 witness: the send of active failed, active resolved true and done
\* was then accepted.
C12_Witness ==
    /\ rsm.n = 3 /\ rsm.inflight = {}
    /\ rsm.reqs[2].next = "active" /\ rsm.reqs[2].sendFailed
    /\ rsm.reqs[2].result = "true"
    /\ rsm.reqs[3].next = "done" /\ rsm.reqs[3].accepted /\ rsm.state = "done"

\* a request that calls the send function
CallsSend(q) == q.accepted \/ q.next = "null"

\* a request that is an accepted transition
IsAccepted(q) == q.accepted

\* C13: the send function is called once per accepted transition and for
\* no rejected one, in request order, with the emoji of the state entered,
\* and _state is already that state when the call is made.
C13_ReactionsInTransitionOrder ==
    LET called == SelectSeq(rsm.reqs, CallsSend)
    IN /\ Len(rsm.log) = Len(called) /\ Len(rsm.seen) = Len(called)
       /\ \A k \in 1..Len(called) :
            called[k].accepted =>
                /\ rsm.log[k] = DEFAULT_REACTION_EMOJIS[called[k].next]
                /\ rsm.seen[k] = called[k].next
       /\ Len(SelectSeq(rsm.reqs, IsAccepted))
            = Cardinality({k \in 1..Len(rsm.log) : rsm.log[k] # ""})

\* C13 witness: queued, active, done, each awaited, and a refused fourth
\* request.
C13_Witness ==
    /\ rsm.n = 4 /\ rsm.inflight = {} /\ rsm.faults = 0
    /\ rsm.log = <<"hourglass", "arrows", "check">>
    /\ rsm.seen = <<"queued", "active", "done">>
    /\ rsm.wire = <<1, 2, 3>>

\* C14: the transport never takes the reaction of an earlier transition
\* after the reaction of a later one.
C14_NeverStale ==
    \A a, b \in 1..Len(rsm.wire) :
        (a < b /\ rsm.reqs[rsm.wire[a]].accepted /\ rsm.reqs[rsm.wire[b]].accepted)
            => rsm.wire[a] < rsm.wire[b]

(* ---- claims about the payloads of one stream ---- *)

\* C15: while the appended text fits in one message, every payload is
\* the concatenation of all fragments appended so far (trimmed); it is a
\* new message only if no earlier send has returned a handle or is still
\* awaited, and otherwise an edit of the first message's handle.
C15_SendThenEditInPlace ==
    [][\A p \in Sent(1) :
          Len(ms'[1].accepted) <= WHATSAPP_LIMIT =>
              /\ p.text = Trim(ms'[1].accepted)
              /\ p.key = 0 => (ms[1].nkeys = 0 /\ InFlight(ms[1]) = {})
              /\ p.key # 0 => p.key = 1]_vars
\* the timer fires on stream s in this step
Ticks(s) ==
    /\ ms[s].tmr.pc = "idle" /\ ms[s].flushTimer /\ ~ppSkips(ms[s])
    /\ ms'[s].pendingContent = <<>> /\ ms'[s].fin = ms[s].fin
    /\ ms'[s].finalized = ms[s].finalized /\ ms'[s].cancelled = ms[s].cancelled

\* the last flush of stream r succeeded and the content is as it left it
FlushedUpToDate(r) ==
    /\ Trim(r.content) # <<>>
    /\ r.lastFlushLength = Len(Trim(r.content))

\* C16: a timer tick that finds only empty fragments sends nothing; after
\* a successful flush a tick that finds nothing but whitespace, with the
\* content still within the limit, sends nothing either; a stream that was
\* only ever given empty or whitespace fragments has sent nothing.
C16_NoRedundantSends ==
    /\ [](NonWsLen(ms[1].accepted) = 0 => ms[1].log = <<>>)
    /\ [][Ticks(1) =>
            /\ Join(ms[1].pendingContent) = <<>> => Sent(1) = {}
            /\ (/\ FlushedUpToDate(ms[1])
                /\ NonWsLen(Join(ms[1].pendingContent)) = 0
                /\ Len(ms[1].content) + Len(Join(ms[1].pendingContent))
                     <= WHATSAPP_LIMIT) => Sent(1) = {}]_vars

\* C16 witness: "a" was flushed, a whitespace fragment arrived and the
\* timer drained it without a second send.
C16_Witness ==
    /\ ms[1].content = <<"a", " ">> /\ ms[1].pendingContent = <<>>
    /\ ms[1].tmr.pc = "idle" /\ ~ms[1].finalized /\ ~ms[1].cancelled
    /\ Len(ms[1].log) = 1 /\ ms[1].nkeys = 1
\* no call of stream r is running and no send has failed or been cancelled
Settled(r) ==
    /\ InFlight(r) = {} /\ r.tmr.pc = "idle" /\ r.fin.pc \in {"idle", "done"}
    /\ ~r.processing /\ r.faults = 0 /\ ~r.cancelled

\* every payload is non-empty and within the limit
PayloadsWithinLimit(r) ==
    \A k \in 1..Len(r.log) :
        r.log[k].text # <<>> /\ Len(r.log[k].text) <= WHATSAPP_LIMIT

C18_OverflowLosesNoText ==
    (ms[1].overflowed /\ Settled(ms[1]) /\ ms[1].pendingContent = <<>>) =>
        Strip(Join(ms[1].shown)) = Strip(ms[1].accepted)
\* C19: didStream is true exactly when some send of the stream has
\* resolved.
C19_DidStreamIffFlushed ==
    \A s \in Alive : ms[s].didStream <=> ms[s].resolved
\* C20: a step in which StreamManager.create constructs a stream for a
\* conversation cancels the registered stream of that conversation if it
\* was neither cancelled nor finalized, and leaves a fresh stream, neither
\* cancelled nor finalized, registered and returned by get().
C20_CreateInterrupts ==
    [][\A id \in StreamIds :
          (~ms[id].alive /\ ms'[id].alive) =>
              LET jid == ms'[id].jid
                  existing == streams[jid]
              IN /\ (existing # 0 /\ Live(ms[existing])) =>
                        (ms'[existing].cancelled /\ ~ms'[existing].flushTimer)
                 /\ Live(ms'[id])
                 /\ ms'[id] = [NewStream(jid) EXCEPT !.owner = ms'[id].owner]
                 /\ get(ms', streams', jid) = id
                 /\ ~getEvicts(ms', streams', jid)]_vars

\* C20 witness: create cancelled a live stream and registered a fresh one.
C20_Witness ==
    \E old, new \in Alive :
        /\ ms[old].superseded /\ ms[old].cancelled
        /\ new # old /\ streams[ms[old].jid] = new /\ Live(ms[new])
        /\ get(ms, streams, ms[old].jid) = new
\* C21: get returns the registered stream when it is neither cancelled
\* nor finalized and undefined otherwise, so never a terminal stream; a
\* stream chunk appends only to a registered live stream, and the only
\* entry get removes is a terminal one.
C21_GetNeverTerminal ==
    /\ [](\A jid \in JIDs :
            LET g == get(ms, streams, jid)
                s == streams[jid]
            IN /\ g # 0 => (g = s /\ Live(ms[g]))
               /\ (s # 0 /\ Live(ms[s])) => (g = s /\ ~getEvicts(ms, streams, jid))
               /\ s = 0 => (g = 0 /\ ~getEvicts(ms, streams, jid))
               /\ (s # 0 /\ ~Live(ms[s])) => (g = 0 /\ getEvicts(ms, streams, jid)))
    /\ [][/\ \A t \in TurnIds :
               turns'[t].chunks = turns[t].chunks + 1 =>
                   LET s == streams[turns[t].jid]
                   IN /\ s # 0 /\ Live(ms[s]) /\ streams' = streams
                      /\ \A x \in StreamIds \ {s} : ms'[x] = ms[x]
          /\ (ms' = ms /\ turns' = turns /\ down' = down) =>
               \A jid \in JIDs :
                   streams'[jid] # streams[jid] =>
                       (streams'[jid] = 0 /\ ~Live(ms[streams[jid]]))]_vars

\* C21 witness: a chunk arrived for a conversation whose registered stream
\* had been finalized by another turn and was still flushing; get evicted
\* the entry.
C21_Witness ==
    /\ ~down /\ ~ms[3].alive /\ streams["A"] = 0
    /\ \E t, u \in TurnIds :
         /\ turns[t].pc = "finalizing" /\ turns[t].waits
         /\ ms[turns[t].stream].owner = u /\ u # t
         /\ ~FinalizeResolved(ms[turns[t].stream])
         /\ turns[u].pc = "inject"

C23_ManagerFinalize ==
    [][\A t \in TurnIds :
          LET jid == turns[t].jid
          IN /\ (turns[t].pc = "inject" /\ turns'[t].pc = "finalizing") =>
                    /\ streams[jid] # 0 /\ turns'[t].stream = streams[jid]
                    /\ ms'[streams[jid]].finalized
             /\ (turns[t].pc = "inject" /\ turns'[t].pc = "responding") =>
                    /\ streams[jid] = 0
                    /\ ~turns'[t].didStream
                    /\ ms' = ms /\ streams' = streams
             /\ (turns[t].pc = "finalizing" /\ turns'[t].pc = "responding") =>
                    LET s == turns[t].stream
                    IN /\ ms[s].finalized
                       /\ streams'[jid] # s
                       /\ turns'[t].didStream = ms[s].didStream
                       /\ ms' = ms]_vars

\* C23 witness: a turn's finalize resolved to true for a stream that had
\* streamed, and the entry is gone.
C23_Witness ==
    \E t \in TurnIds :
        /\ turns[t].pc = "responding" /\ turns[t].didStream
        /\ streams[turns[t].jid] = 0
        /\ \E s \in Alive : ms[s].owner = t /\ ms[s].finalized /\ ms[s].nkeys = 1

\* C24: once cancelAll has run the streams it found in the registry are
\* cancelled or finalized and hand nothing further to the transport, and
\* its own step leaves the registry empty.
C24_ShutdownStopsEverything ==
    /\ [](\A s \in Alive : ms[s].shut => (ms[s].cancelled \/ ms[s].finalized))
    /\ [][/\ (~down /\ down') => \A j \in JIDs : streams'[j] = 0
          /\ \A s \in Alive : ms[s].shut => ms'[s].log = ms[s].log]_vars

(* ------------------------------------------------------------------ *)
(* classifyError on thrown values of any shape                         *)
(* ------------------------------------------------------------------ *)

\* status codes a thrown object may carry, 0 for a field that is absent
StatusValues == {0, 400, 401, 403, 404, 410, 429, 500, 503}

\* a thrown value
\*   kind        "null" | "primitive" (string, number) | "object" | "Error"
\*   output, status, statusCode
\*               err.output.statusCode, err.status, err.statusCode
\*   hasMessage  the object has a message property
\*   perm, net   the text of the message (for a primitive, of String(err))
\*               matches a permanent pattern / the network expression
Thrown(kind, output, status, statusCode, hasMessage, perm, net) ==
    [kind |-> kind, output |-> output, status |-> status,
     statusCode |-> statusCode, hasMessage |-> hasMessage,
     perm |-> perm, net |-> net]

ThrownValues ==
    {Thrown("null", 0, 0, 0, FALSE, FALSE, FALSE)}
    \cup {Thrown("primitive", 0, 0, 0, FALSE, p, n) : p, n \in BOOLEAN}
    \cup {Thrown("object", o, st, sc, FALSE, FALSE, FALSE) :
            o, st, sc \in StatusValues}
    \cup {Thrown(k, o[1], o[2], o[3], TRUE, f[1], f[2]) :
            k \in {"object", "Error"},
            o \in StatusValues \X StatusValues \X StatusValues,
            f \in BOOLEAN \X BOOLEAN}

\* getErrorStatusCode(err), 0 for undefined
getErrorStatusCode(v) ==
    IF v.kind \in {"null", "primitive"} THEN 0
    ELSE IF v.output # 0 THEN v.output
    ELSE IF v.status # 0 THEN v.status
    ELSE v.statusCode

\* the message classifyError tests: err.message, String(err.message) or
\* String(err); String(null) and "[object Object]" match no pattern
messageMatches(v) ==
    IF v.kind = "null" \/ (v.kind = "object" /\ ~v.hasMessage)
    THEN [perm |-> FALSE, net |-> FALSE]
    ELSE [perm |-> v.perm, net |-> v.net]

\* what classifyError reads of a thrown value
thrownAsErr(v) ==
    Err(getErrorStatusCode(v), messageMatches(v).perm, messageMatches(v).net)

ClassifyInputs ==
    {[fn |-> "classifyError", st |-> "input", arg |-> v, out |-> "none"] :
        v \in ThrownValues}

\* every part of the program at rest
AtRest ==
    /\ ms = [s \in StreamIds |-> NoStream]
    /\ streams = [j \in JIDs |-> 0]
    /\ turns = IdleTurns
    /\ down = FALSE
    /\ retry = IdleRetry
    /\ rsm = IdleRsm

InitClassify == AtRest /\ call \in ClassifyInputs

\* classifyError(err) is evaluated
Classifies ==
    /\ call.fn = "classifyError" /\ call.st = "input"
    /\ call' = [call EXCEPT !.st = "done",
                            !.out = classifyError(thrownAsErr(call.arg))]
    /\ UNCHANGED <<ms, streams, turns, down, retry, rsm>>

NextClassify == Classifies

SpecClassify == InitClassify /\ [][NextClassify]_vars

\* C25: classifyError answers by the decision list: permanent status,
\* else rate-limit status, else permanent message, else retryable; so a
\* status decides before the message, a permanent message before a network
\* one, and null, primitives without a permanent message and objects of
\* unknown shape are retryable.
C25_ClassifyDecisionList ==
    (call.fn = "classifyError" /\ call.st = "done") =>
        LET v == call.arg
            code == getErrorStatusCode(v)
            m == messageMatches(v)
        IN /\ call.out \in {"permanent", "retryable"}
           /\ call.out =
                 IF code \in {400, 401, 403, 404, 410} THEN "permanent"
                 ELSE IF code \in {429, 503} THEN "retryable"
                 ELSE IF m.perm THEN "permanent"
                 ELSE "retryable"
           /\ (code \in {429, 503} /\ m.perm) => call.out = "retryable"
           /\ (code \in {0, 500} /\ m.perm /\ m.net) => call.out = "permanent"
           /\ v.kind = "null" => call.out = "retryable"
           /\ (v.kind = "primitive" /\ ~v.perm) => call.out = "retryable"
           /\ (v.kind = "object" /\ ~v.hasMessage /\ code \in {0, 500})
                 => call.out = "retryable"

\* C25 witness: status 429 with an 'unauthorized' message was classified
\* retryable.
C25_Witness ==
    /\ call.fn = "classifyError" /\ call.st = "done"
    /\ call.arg.kind = "object" /\ call.arg.output = 429
    /\ call.arg.hasMessage /\ call.arg.perm
    /\ call.out = "retryable"

(* ------------------------------------------------------------------ *)
(* calculateDelay and the delay withRetry sleeps                       *)
(* ------------------------------------------------------------------ *)

\* retry configurations: baseDelay > 0, maxDelay >= baseDelay, jitter in
\* hundredths between 0 and 1
RetryConfigs ==
    {[maxRetries |-> 3, baseDelay |-> c[1], maxDelay |-> c[2], jitter |-> c[3]] :
        c \in {d \in {1, 3, 1000} \X {3, 10, 30000} \X {0, 20, 100} :
                 d[2] >= d[1]}}

\* retry-after hints in milliseconds, <<>> for null
RetryAfterHints == {<<>>, <<0>>, <<-1000>>, <<7>>, <<5000>>, <<60000>>}

DelayInputs ==
    {[fn |-> "calculateDelay", st |-> "input", attempt |-> n, config |-> c,
      retryAfterMs |-> h, rnd |-> r, out |-> 0] :
        n \in 0..MaxAttempt, c \in RetryConfigs, h \in RetryAfterHints,
        r \in 0..(RandomDen - 1)}

\* either one call of calculateDelay is looked at, or a withRetry call
InitDelay == AtRest /\ call \in DelayInputs \cup {NoCall}

\* calculateDelay(attempt, config, retryAfterMs) is evaluated
Calculates ==
    /\ call.fn = "calculateDelay" /\ call.st = "input"
    /\ call' = [call EXCEPT
                  !.st = "done",
                  !.out = calculateDelay(call.attempt, call.config,
                                         call.retryAfterMs, call.rnd)]
    /\ UNCHANGED <<ms, streams, turns, down, retry, rsm>>

NextDelay == Calculates \/ (call = NoCall /\ NextRetry)

SpecDelay == InitDelay /\ [][NextDelay]_vars

\* calculateDelay(attempt, config, null) was evaluated with jitter 0
BackoffOnly ==
    /\ call.fn = "calculateDelay" /\ call.st = "done"
    /\ call.config.jitter = 0 /\ call.retryAfterMs = <<>>

\* C26: with jitter 0 and no retry-after hint calculateDelay(n, cfg, null)
\* is min(baseDelay * 2^n, maxDelay) whatever Math.random returns, and the
\* delay for attempt n + 1 is not smaller.
C26_ExactBackoff ==
    BackoffOnly =>
        /\ call.out = MathMin(call.config.baseDelay * Pow2(call.attempt),
                              call.config.maxDelay)
        /\ \A r \in 0..(RandomDen - 1) :
             call.out <= calculateDelay(call.attempt + 1, call.config, <<>>, r)

\* C26 witness: an attempt whose backoff is capped: baseDelay 1000,
\* maxDelay 30000, attempt 5.
C26_Witness ==
    /\ BackoffOnly
    /\ call.config.baseDelay = 1000 /\ call.attempt = 5
    /\ call.out = 30000

\* the retry-after hint of the failure withRetry is sleeping after
SleepHint == extractRetryAfter(retry.errs[Len(retry.errs)])

\* C27: calculateDelay with a hint h > 0 returns min(h, maxDelay) for every
\* attempt, jitter and random draw, and withRetry sleeps exactly that long
\* after a failure that carries such a hint.
C27_HintReplacesBackoff ==
    /\ (/\ call.fn = "calculateDelay" /\ call.st = "done"
        /\ call.retryAfterMs # <<>> /\ call.retryAfterMs[1] > 0)
           => call.out = MathMin(call.retryAfterMs[1], call.config.maxDelay)
    /\ (/\ retry.pc = "sleeping"
        /\ SleepHint # <<>> /\ SleepHint[1] > 0)
           => retry.delay = MathMin(SleepHint[1], DEFAULT_RETRY_CONFIG.maxDelay)
    /\ (/\ retry.pc = "sleeping"
        /\ retry.errs[Len(retry.errs)].after.retryAfter = <<5>>)
           => retry.delay = 5000

\* C27 witness: withRetry sleeps the capped 30000 ms after a second
\* failure that asked for 60 s.
C27_Witness ==
    /\ retry.pc = "sleeping" /\ retry.attempt = 1
    /\ retry.errs[2].after.retry_after = <<60>>
    /\ retry.delay = 30000

\* C40: every delay calculateDelay returns, and every delay withRetry
\* sleeps, is at least 0 and at most maxDelay.
C40_DelayWithinCap ==
    /\ (call.fn = "calculateDelay" /\ call.st = "done") =>
           (0 <= call.out /\ call.out <= call.config.maxDelay)
    /\ retry.pc = "sleeping" =>
           (0 <= retry.delay /\ retry.delay <= DEFAULT_RETRY_CONFIG.maxDelay)


(* ------------------------------------------------------------------ *)
(* findSplitPoint                                                      *)
(* ------------------------------------------------------------------ *)

\* characters of the texts findSplitPoint is evaluated for
SplitAlphabet == {"a", " ", ".", "\n"}

SplitTexts == UNION {[1..n -> SplitAlphabet] : n \in 0..MaxTextLen}

SplitInputs ==
    {[fn |-> "findSplitPoint", st |-> "input", text |-> t, maxLen |-> m,
      out |-> 0] : t \in SplitTexts, m \in 2..WHATSAPP_LIMIT}

InitSplit == AtRest /\ call \in SplitInputs

\* findSplitPoint(text, maxLen) is evaluated
Splits ==
    /\ call.fn = "findSplitPoint" /\ call.st = "input"
    /\ call' = [call EXCEPT !.st = "done",
                            !.out = findSplitPoint(call.text, call.maxLen)]
    /\ UNCHANGED <<ms, streams, turns, down, retry, rsm>>

NextSplit == Splits

SpecSplit == InitSplit /\ [][NextSplit]_vars

\* the text has no sentence end plus whitespace, newline or space at all
NoBoundary(text) ==
    \A i \in 1..Len(text) : text[i] \notin {" ", "\n"}

\* C28: for a text longer than max findSplitPoint returns a value between
\* max/2 and max, exactly max when the text has no boundary, and never
\* more than max; for a text of length <= max it returns the length.
C28_SplitPointInRange ==
    (call.fn = "findSplitPoint" /\ call.st = "done") =>
        IF Len(call.text) <= call.maxLen
        THEN call.out = Len(call.text)
        ELSE /\ call.out <= call.maxLen
             /\ 2 * call.out >= call.maxLen
             /\ NoBoundary(call.text) => call.out = call.maxLen

\* a findSplitPoint call on a text longer than maxLen has returned
SplitDone ==
    call.fn = "findSplitPoint" /\ call.st = "done"
        /\ Len(call.text) > call.maxLen

\* the ends of "terminator, whitespace" pairs within the first maxLen
\* characters, as numbers of characters before the end
SentenceEnds(text, maxLen) ==
    {p \in 2..maxLen : text[p - 1] \in {".", "!", "?"} /\ IsWs(text[p])}

\* the positions after an occurrence of c among the first n characters
After1(text, c, n) == {p \in 1..n : p <= Len(text) /\ text[p] = c}

\* the largest element of S, 0 for none
Last(S) == IF S = {} THEN 0 ELSE SetMax(S)

Covers(r, j, i) ==
    /\ r.log[j].off <= r.log[i].off
    /\ r.log[i].off + NonWsLen(r.log[i].text)
           <= r.log[j].off + NonWsLen(r.log[j].text)

\* C29: once finalize() has resolved on a stream that was not cancelled,
\* the text of every send that rejected before finalize's own final flush
\* was part of a later payload handed to the transport.
C29_FailedTextIsResent ==
    \A s \in Alive :
        (FinalizeResolved(ms[s]) /\ ~ms[s].cancelled) =>
            \A f \in ms[s].failed :
                f.ctx # "fin" =>
                    \E j \in (f.at + 1)..Len(ms[s].log) : Covers(ms[s], j, f.at)

\* C30: the step in which a send rejects returns normally into the flush
\* that awaited it, leaves cancelled, finalized, messageKey,
\* lastFlushLength, content and the pending fragments as they were, and on
\* a stream that is neither cancelled nor finalized append() still accepts
\* every fragment.
C30_FlushFailureContained ==
    [][\A s \in Alive :
          ms'[s].failed # ms[s].failed =>
              /\ ms'[s].cancelled = ms[s].cancelled
              /\ ms'[s].finalized = ms[s].finalized
              /\ ms'[s].messageKey = ms[s].messageKey
              /\ ms'[s].lastFlushLength = ms[s].lastFlushLength
              /\ ms'[s].content = ms[s].content
              /\ ms'[s].pendingContent = ms[s].pendingContent
              /\ ms'[s].didStream = ms[s].didStream
              /\ \E th \in Threads :
                    /\ ms[s][th].pc = "sending"
                    /\ ms'[s][th].pc = "ret" /\ ms'[s][th].ctx = ms[s][th].ctx
              /\ (~ms[s].cancelled /\ ~ms[s].finalized) =>
                    \A text \in Fragments :
                        append(ms'[s], text).pendingContent
                            = Append(ms[s].pendingContent, text)]_vars

\* C30 witness: the closing flush of an overflow split rejected, and later
\* a fragment was appended and handed to the transport.
C30_Witness ==
    \E s \in Alive :
        \E f \in ms[s].failed :
            /\ f.ctx = "ovCur"
            /\ ~ms[s].cancelled /\ ~ms[s].finalized
            /\ Len(ms[s].log) > f.at + 1
            /\ ms[s].tmr.pc = "sending"

(* ------------------------------------------------------------------ *)
(* Message handles of a stream                                         *)
(* ------------------------------------------------------------------ *)

\* text a begins text b
IsPrefix(a, b) == Len(a) <= Len(b) /\ SubSeq(b, 1, Len(a)) = a

\* C31: every edit handed to the transport extends the text its message
\* shows and every text sent to that handle before.
C31_EditsNeverShrink ==
    [][\A p \in Sent(1) :
          p.key # 0 =>
              /\ IsPrefix(ms[1].shown[p.key], p.text)
              /\ \A i \in 1..Len(ms[1].log) :
                    ms[1].log[i].key = p.key =>
                        IsPrefix(ms[1].log[i].text, p.text)]_vars

\* C32: every edit targets the handle the latest successful new-message
\* send returned, never a handle that overflow has closed, and the first
\* payload after overflow closed a message is a new message.
C32_OnlyLatestMessageEdited ==
    [][/\ \A p \in Sent(1) :
             p.key # 0 =>
                 /\ p.key = ms[1].nkeys
                 /\ \A i \in 1..Len(ms[1].completedKeys) :
                       ms[1].completedKeys[i] # p.key
       /\ ms'[1].completedKeys # ms[1].completedKeys =>
             \A p \in Sent(1) : p.key = 0]_vars

\* C32 witness: message 1 was closed by overflow and message 2 has been
\* edited.
C32_Witness ==
    /\ ms[1].completedKeys = <<1>> /\ ms[1].messageKey = 2
    /\ \E i \in 1..Len(ms[1].log) : ms[1].log[i].key = 2

\* C33 as stated: the message handle is present exactly when some send of
\* the stream has succeeded.
C33_HandleIffFlushed ==
    (ms[1].messageKey # 0) <=> ms[1].resolved

\* handle k has been closed by overflow
Closed(r, k) == \E i \in 1..Len(r.completedKeys) : r.completedKeys[i] = k

\* C33 amended: the message handle is present exactly when the transport
\* has returned a handle that overflow has not closed since, and it is
\* that handle; a present handle implies a send has succeeded.
C33_HandleIffOpenMessage ==
    /\ (ms[1].messageKey # 0) <=>
           (ms[1].nkeys > 0 /\ ~Closed(ms[1], ms[1].nkeys))
    /\ ms[1].messageKey # 0 =>
           (ms[1].messageKey = ms[1].nkeys /\ ms[1].resolved /\ ms[1].didStream)

\* C33 witness: overflow closed message 1 and the remainder has not been
\* sent yet: a flush has succeeded and no handle is present.
C33_Witness ==
    /\ ms[1].completedKeys = <<1>> /\ ms[1].messageKey = 0
    /\ ms[1].resolved /\ ms[1].nkeys = 1

(* ------------------------------------------------------------------ *)
(* Reachability of live streams                                        *)
(* ------------------------------------------------------------------ *)

\* C34: a stream that StreamManager.create returned and that is neither
\* cancelled nor finalized is the stream get() returns for its
\* conversation.
C34_LiveStreamStaysReachable ==
    \A s \in Alive :
        (ms[s].owner # 0 /\ Live(ms[s])) =>
            get(ms, streams, ms[s].jid) = s

(* ------------------------------------------------------------------ *)
(* One turn whose backend streams fragments of every kind              *)
(* ------------------------------------------------------------------ *)

\* onStream with fragments of every kind
ReplyChunk(t) == StreamChunkFrom(t, Fragments, MaxAppends)

NextReply ==
    \/ Arrive(1)
    \/ InjectCreates(1)
    \/ InjectCalls(1)
    \/ ReplyChunk(1)
    \/ InjectResolves(1)
    \/ FinalizeReturns(1)
    \/ Throws(1)
    \/ Finally(1)
    \/ \E s \in StreamIds :
         \/ Tick(s)
         \/ SendSettles(s)
         \/ Resume(s)

SpecReply == InitMgr /\ [][NextReply]_vars

\* the payloads of r's log that the transport took
Delivered(r) ==
    {i \in 1..Len(r.log) :
        /\ \A f \in r.failed : f.at # i
        /\ \A th \in InFlight(r) : LastSendOf(r, th) # i}

\* C35: when StreamManager.finalize has returned true to a turn and no
\* call of the stream it finalized is running any more, every character of
\* every fragment appended to that stream (whitespace aside) is part of a
\* payload the transport took.
C35_NoTruncatedReply ==
    \A t \in TurnIds :
        LET s == Newest(turns[t].jid)
        IN (/\ turns[t].pc = "responding" /\ turns[t].didStream
            /\ s # 0 /\ ms[s].faults = Cardinality(ms[s].failed)
            /\ InFlight(ms[s]) = {} /\ ms[s].tmr.pc = "idle") =>
               \A p \in 1..NonWsLen(ms[s].accepted) :
                   \E i \in Delivered(ms[s]) :
                       /\ ms[s].log[i].off < p
                       /\ p <= ms[s].log[i].off + NonWsLen(ms[s].log[i].text)

(* ------------------------------------------------------------------ *)
(* Dispatch of an inbound message                                      *)
(* ------------------------------------------------------------------ *)

\* C36: ctx.inject is called at most once for every inbound message.
C36_InjectAtMostOnce ==
    \A t \in TurnIds : turns[t].injects <= 1

(* ------------------------------------------------------------------ *)
(* One message from queueing to its final reaction                     *)
(* ------------------------------------------------------------------ *)

\* the backend call returns or throws, or sendResponse throws
BackendSettles(t) == InjectResolves(t) \/ Throws(t)

\* a send of some stream settles or a suspended call resumes
TransportProgress == \E s \in StreamIds : SendSettles(s) \/ Resume(s)

NextPipeline ==
    \/ Arrive(1)
    \/ InjectCreates(1)
    \/ InjectCalls(1)
    \/ StreamChunk(1)
    \/ BackendSettles(1)
    \/ FinalizeReturns(1)
    \/ Finally(1)
    \/ Shutdown
    \/ \E s \in StreamIds : Tick(s)
    \/ TransportProgress

\* every await of the handler is resumed once its promise has settled, the
\* backend call and every send settle
SpecPipeline ==
    /\ InitMgr /\ [][NextPipeline]_vars
    /\ WF_vars(InjectCreates(1))
    /\ WF_vars(InjectCalls(1))
    /\ WF_vars(BackendSettles(1))
    /\ WF_vars(FinalizeReturns(1))
    /\ WF_vars(Finally(1))
    /\ WF_vars(TransportProgress)

\* C37: a message whose reaction machine is queued eventually has it in a
\* terminal state.
C37_EndsWithFinalReaction ==
    \A t \in TurnIds :
        (turns[t].reaction = "queued") ~> isTerminal(turns[t].reaction)

(* ------------------------------------------------------------------ *)
(* Two conversations                                                   *)
(* ------------------------------------------------------------------ *)

\* message 1 belongs to conversation A, message 2 to conversation B
NextConversations ==
    \/ ArriveAt(1, "A")
    \/ ArriveAt(2, "B")
    \/ \E t \in TurnIds :
         \/ InjectCreates(t)
         \/ InjectCalls(t)
         \/ StreamChunk(t)
         \/ InjectResolves(t)
         \/ FinalizeReturns(t)
         \/ Throws(t)
         \/ Finally(t)
    \/ Shutdown
    \/ \E s \in StreamIds :
         \/ Tick(s)
         \/ SendSettles(s)
         \/ Resume(s)

SpecConversations == InitMgr /\ [][NextConversations]_vars

\* this step leaves the registry entry of conversation b and the streams
\* created for it as they are
Untouched(b) ==
    /\ streams'[b] = streams[b]
    /\ \A s \in CreatedFor(b) : ms'[s] = ms[s]

\* C39: a step of the handling of a message (interrupt, create, get,
\* finalize, transition) leaves the registry entry and the streams of
\* every other conversation, and the turn and reaction state of every
\* other message, unchanged; apart from shutdown no step changes the
\* registry entries of two conversations.
C39_ConversationsIndependent ==
    [][/\ \A t \in TurnIds :
             turns'[t] # turns[t] =>
                 /\ \A b \in JIDs \ {turns'[t].jid} : Untouched(b)
                 /\ \A u \in TurnIds \ {t} : turns'[u] = turns[u]
       /\ down' = down =>
             Cardinality({b \in JIDs : streams'[b] # streams[b]}) <= 1]_vars

\* C39 witness: conversation A has a live stream with buffered text and
\* its message is being processed while conversation B's message has
\* created its own stream.
C39_Witness ==
    /\ streams["A"] # 0 /\ streams["B"] # 0
    /\ Live(ms[streams["A"]]) /\ Live(ms[streams["B"]])
    /\ ms[streams["A"]].pendingContent # <<>>
    /\ turns[1].reaction = "active" /\ turns[2].reaction = "active"

====
